---- MODULE Spec2Model ----
(***************************************************************************)
(* MicroPezzottoMet: the monthly orchestrator (main_micromet.py) and the   *)
(* terrain-derivative helpers (utils.py).                                  *)
(*                                                                         *)
(* Three specifications share the variables:                               *)
(*   Spec      a run of run_micropezzomet (slope/aspect, curvature, the    *)
(*             joblib fan-out of run_month), and re-runs on the same       *)
(*             working directory;                                          *)
(*   SpecFlags the same run over every table of the five flags, on         *)
(*             well-named monthly files;                                   *)
(*   SpecCurv  compute_topographic_curvature applied to every DEM of a     *)
(*             bounded family, with and without a nodata value.            *)
(***************************************************************************)
EXTENDS Integers, Sequences, FiniteSets, TLC

\* ------------------------------------------------------------------ bounds
MaxFiles == 2
MaxJobs == 2
MaxRuns == 2
MaxOdd == 2
MaxN == 4
MaxNodataCells == 1

\* --------------------------------------------------------------- constants
\* utils.py:110, the default curvature length scale L
DefaultL == 1000

\* np.nan: one value outside the elevations and outside the signs -1, 0, 1
NaN == 1000000

\* Python's None for an optional number; a supplied number v is <<v>>
None == <<>>

Max(a, b) == IF a >= b THEN a ELSE b
Min(a, b) == IF a <= b THEN a ELSE b

\* ================================================================ utils.py

\* parse_yes_no_flag: "y" -> True, "n" -> False, anything else raises
parse_yes_no_flag(value) ==
    IF value = "y" THEN "True"
    ELSE IF value = "n" THEN "False"
    ELSE "ValueError"

\* Python 3 round(n / d) for n >= 0, d > 0: half goes to the even neighbour
PyRound(n, d) ==
    LET q == n \div d
        r == n % d
    IN  IF 2 * r < d THEN q
        ELSE IF 2 * r > d THEN q + 1
        ELSE IF q % 2 = 0 THEN q ELSE q + 1

\* utils.py:141-144: deltaxy = 0.5 * (deltax + deltay); inc = max(1, int(round(L / deltaxy)))
SampleOffset(dem, L) == Max(1, PyRound(2 * L, dem.dx + dem.dy))

\* utils.py:137-138: dem[dem == dem_nodata] = np.nan, only when a value is given
MaskNodata(dem, dem_nodata) ==
    [p \in DOMAIN dem.z |->
        IF dem_nodata # None /\ dem.z[p] = dem_nodata[1] THEN NaN ELSE dem.z[p]]

Clamp(k, lo, hi) == Max(lo, Min(k, hi))

\* np.pad(dem, inc, mode='edge'): (ny + 2 inc) x (nx + 2 inc), edge values replicated
PadEdge(a, ny, nx, inc) ==
    [p \in (0 .. ny + 2 * inc - 1) \X (0 .. nx + 2 * inc - 1) |->
        a[<<Clamp(p[1] - inc, 0, ny - 1), Clamp(p[2] - inc, 0, nx - 1)>>]]

\* a Python slice bound resolved against an axis of length n
SliceBound(k, n) == IF k < 0 THEN Max(k + n, 0) ELSE Min(k, n)

\* the slice start:stop of an axis of length n, as [lo, len]
PySlice(start, stop, n) ==
    LET lo == SliceBound(start, n)
        hi == SliceBound(stop, n)
    IN  [lo |-> lo, len |-> Max(0, hi - lo)]

\* utils.py:149-157, the row and column slices of the nine shifted views
CentreSlice(inc, n) == PySlice(inc, 0 - inc, n)
LowSlice(inc, n) == PySlice(inc - inc, 0 - 2 * inc, n)
HighSlice(inc, n) == PySlice(inc + inc, 2 * inc + inc, n)

\* utils.py:160: the elementwise minimum of the nine shapes, along one axis
CommonLen(inc, n) ==
    Min(CentreSlice(inc, n).len, Min(LowSlice(inc, n).len, HighSlice(inc, n).len))

\* a - b on float arrays: NaN absorbs
Sub(a, b) == IF a = NaN \/ b = NaN THEN NaN ELSE a - b
Times4(a) == IF a = NaN THEN NaN ELSE 4 * a

\* the sign of d / sqrt(2) + c for integers d, c (exact: sqrt(2) is irrational)
SignOfSum(d, c) ==
    IF d = 0 /\ c = 0 THEN 0
    ELSE IF d >= 0 /\ c >= 0 THEN 1
    ELSE IF d <= 0 /\ c <= 0 THEN 0 - 1
    ELSE IF d > 0 THEN (IF d * d > 2 * c * c THEN 1 ELSE 0 - 1)
    ELSE (IF d * d > 2 * c * c THEN 0 - 1 ELSE 1)

\* utils.py:166-173 at one pixel of the cropped views.  nd and nc are the
\* numerators of c_diag and c_cross; the value written is
\*   (nd / sqrt 2 + nc) / (16 inc deltaxy) / (2 curve_max),  curve_max >= 0.001,
\* a positive multiple of nd / sqrt 2 + nc, kept here as its sign (or NaN).
CurvatureAt(pad, inc, n, m, i, j) ==
    LET rc == CentreSlice(inc, n).lo + i
        rl == LowSlice(inc, n).lo + i
        rh == HighSlice(inc, n).lo + i
        cc == CentreSlice(inc, m).lo + j
        cl == LowSlice(inc, m).lo + j
        ch == HighSlice(inc, m).lo + j
        z == pad[<<rc, cc>>]
        zW == pad[<<rc, cl>>]
        zE == pad[<<rc, ch>>]
        zS == pad[<<rh, cc>>]
        zN == pad[<<rl, cc>>]
        zSW == pad[<<rh, cl>>]
        zNE == pad[<<rl, ch>>]
        zNW == pad[<<rl, cl>>]
        zSE == pad[<<rh, ch>>]
        nd == Sub(Sub(Sub(Sub(Times4(z), zSW), zNE), zNW), zSE)
        nc == Sub(Sub(Sub(Sub(Times4(z), zW), zE), zN), zS)
    IN  IF nd = NaN \/ nc = NaN \/ z = NaN THEN NaN ELSE SignOfSum(nd, nc)

\* utils.py:176-178: whether curvature (length len) can be stored into a
\* target slice of length tlen (numpy broadcasting: equal, or a source of 1)
Broadcastable(len, tlen) == len = tlen \/ len = 1

\* utils.py:132-182: the body of compute_topographic_curvature once the cache
\* check has failed.  [ok |-> FALSE] is the ValueError numpy raises when the
\* embedding shapes do not broadcast; otherwise raster is what dst.write gets.
CurvatureRaster(dem, L, dem_nodata) ==
    LET ny == dem.ny
        nx == dem.nx
        inc == SampleOffset(dem, L)
        pad == PadEdge(MaskNodata(dem, dem_nodata), ny, nx, inc)
        n == ny + 2 * inc
        m == nx + 2 * inc
        h == CommonLen(inc, n)
        w == CommonLen(inc, m)
        tr == PySlice(inc, inc + h, ny)
        tc == PySlice(inc, inc + w, nx)
        src(k, len) == IF len = 1 THEN 0 ELSE k
    IN  IF Broadcastable(h, tr.len) /\ Broadcastable(w, tc.len)
        THEN [ok |-> TRUE,
              raster |->
                [p \in (0 .. ny - 1) \X (0 .. nx - 1) |->
                    IF /\ p[1] >= tr.lo /\ p[1] < tr.lo + tr.len
                       /\ p[2] >= tc.lo /\ p[2] < tc.lo + tc.len
                    THEN CurvatureAt(pad, inc, n, m,
                                     src(p[1] - tr.lo, h), src(p[2] - tc.lo, w))
                    ELSE NaN]]
        ELSE [ok |-> FALSE, raster |-> <<>>]


\* ======================================================== main_micromet.py

\* run_month's five blocks, in source order: the operator each calls, ...
OperatorName(i) ==
    <<"downscale_Temperature", "downscale_SW", "downscale_RH",
      "downscale_Precipitation", "downscale_Wind">>[i]

\* ... the flag each reads ...
FlagKey(i) ==
    <<"t_air", "sw_radiation", "relative_humidity", "precipitation", "wind">>[i]

\* (a slip: the SW and RH folders exchanged)
OutputFolderSwapped(i) == <<"Temperature", "RH", "SW", "P", "Wind">>[i]

\* ... and the folder under <working_directory>/outputs each hands its operator
OutputFolder(i) == <<"Temperature", "SW", "RH", "P", "Wind">>[i]

Blocks == 1 .. 5
PastLastBlock == Cardinality(Blocks) + 1

\* a key the configuration's variables_to_downscale does not hold
Absent == "<absent>"

\* variables_to_downscale.get(key, "n")
FlagGet(flags, key) == IF flags[key] = Absent THEN "n" ELSE flags[key]

\* parse_yes_no_flag(variables_to_downscale.get(<key of block i>, "n"), ...)
BlockFlag(flags, i) == parse_yes_no_flag(FlagGet(flags, FlagKey(i)))

\* the first block at or after i whose flag does not parse to False (there the
\* task invokes an operator or raises), or PastLastBlock when run_month returns
RECURSIVE NextStop(_, _)
NextStop(flags, i) ==
    IF i >= PastLastBlock THEN PastLastBlock
    ELSE IF BlockFlag(flags, i) = "False" THEN NextStop(flags, i + 1)
    ELSE i

\* the .nc files that may lie in <working_directory>/inputs/climate, as their
\* '_'-separated fields, listed in sorted() order:
\*   ERA5_2020_01.nc, ERA5_2020_02.nc, era5land_2020_01.nc, notes.nc
FileNames ==
    << <<"ERA5", "2020", "01.nc">>,
       <<"ERA5", "2020", "02.nc">>,
       <<"era5land", "2020", "01.nc">>,
       <<"notes.nc">> >>

\* main_micromet.py:22-23: split('_')[2] and split('_')[1], Python indices
MonthIndex == 3
YearIndex == 2
\* (a slip: the month read from the year's field)
MonthFromYearField(f) == FileNames[f][YearIndex]

MonthOf(f) == FileNames[f][MonthIndex]
YearOf(f) == FileNames[f][YearIndex]
NameParses(f) == Len(FileNames[f]) >= MonthIndex /\ Len(FileNames[f]) >= YearIndex

\* the file an operator writes, "named to encode variable, year, and month"
\* inside its variable folder (the operators are not part of the sources here)
OutputPath(folder, f) == <<folder, YearOf(f), MonthOf(f)>>

\* main_micromet.py:86: compute_topographic_curvature(dem_path, working_directory)
\* is called with two arguments, so dem_nodata takes its default, None
CurvatureNodataArg(cfg) == None

\* main_micromet.py:28-48: every operator is handed dem_nodata=dem_nodata
OperatorNodataArg(cfg) == cfg.dem_nodata

\* (a slip: the fan-out placed before the curvature step)
StageAfterFanoutFirst(stage) ==
    IF stage = "slope" THEN "fanout"
    ELSE IF stage = "fanout" THEN "curvature"
    ELSE "done"

\* the order of the steps of run_micropezzomet (lines 84, 86, 92)
StageAfter(stage) ==
    IF stage = "slope" THEN "curvature"
    ELSE IF stage = "curvature" THEN "fanout"
    ELSE "done"

\* (a slip: the existence check dropped)
CacheNeverHit(file) == FALSE

\* utils.py:128: os.path.exists(curvature_path)
CacheHit(file) == file.exists

\* ------------------------------------------------------------------ inputs
NoDataValue == 0 - 9
FlagValues == {"y", "n", "maybe", Absent}
FlagKeys == {FlagKey(i) : i \in Blocks}

\* configurations with at most MaxOdd entries other than "n"
FlagConfigs ==
    {c \in [FlagKeys -> FlagValues] : Cardinality({k \in FlagKeys : c[k] # "n"}) <= MaxOdd}

Grid(ny, nx) == (0 .. ny - 1) \X (0 .. nx - 1)

\* a 4 x 4 DEM on 1000-unit cells with a ridge and one nodata corner
ExampleDem ==
    [ny |-> 4, nx |-> 4, dx |-> 1000, dy |-> 1000,
     z |-> [p \in Grid(4, 4) |->
              IF p = <<0, 0>> THEN NoDataValue ELSE IF p[1] = 1 THEN 1 ELSE 0]]

\* a 3 x 3 DEM on 500-unit cells: the sample offset is 2
SmallDem ==
    [ny |-> 3, nx |-> 3, dx |-> 500, dy |-> 500,
     z |-> [p \in Grid(3, 3) |-> IF p = <<1, 1>> THEN 1 ELSE 0]]

\* a DEM file rasterio.open cannot read
UnreadableDem == [ny |-> 0, nx |-> 0, dx |-> 0, dy |-> 0, z |-> <<>>]
Readable(d) == d.ny > 0

RunDems == {ExampleDem, SmallDem, UnreadableDem}

\* flat DEMs of every shape up to n x n, with at most k cells holding the
\* nodata value and at most one cell raised by one
CellSizes == {400, 1000, 2000}
BaseElevations == {0, 7}
\* the subsets of S with at most k elements
RECURSIVE SubsetsUpTo(_, _)
SubsetsUpTo(S, k) ==
    IF k = 0 THEN {{}}
    ELSE LET smaller == SubsetsUpTo(S, k - 1)
         IN  smaller \cup {T \cup {x} : T \in smaller, x \in S}

CurvDems(n, k) ==
    UNION {
        { [ny |-> ny, nx |-> nx, dx |-> c, dy |-> c,
           z |-> [p \in Grid(ny, nx) |->
                    IF p \in N THEN NoDataValue
                    ELSE IF p \in R THEN b + 1 ELSE b]] :
          N \in SubsetsUpTo(Grid(ny, nx), k),
          R \in SubsetsUpTo(Grid(ny, nx), 1),
          c \in CellSizes, b \in BaseElevations } :
        ny \in 1 .. n, nx \in 1 .. n }

NoFile == [exists |-> FALSE, data |-> <<>>]

VARIABLES
    config,          \* the loaded configuration: flags, dem_nodata, jobs
    dem,             \* the DEM file
    climate_files,   \* indices into FileNames of the files glob finds
    curvature_file,  \* <working_directory>/inputs/dem/curvature.tif
    pc,              \* where run_micropezzomet is
    task,            \* per climate file, the state of its run_month task
    calls,           \* the operator invocations of this run
    log,             \* per run: calls, reads and writes of the terrain steps
    run              \* how many times the program has been started

vars == <<config, dem, climate_files, curvature_file, pc, task, calls, log, run>>

FreshLog ==
    [slope_calls |-> 0, gdal_failed |-> FALSE, curv_calls |-> 0, dem_reads |-> 0,
     curv_writes |-> 0, curv_nodata |-> <<>>, late_writes |-> 0]

Pending == [st |-> "pending", pos |-> 0, err |-> "none"]

Init ==
    /\ config \in [flags : FlagConfigs,
                   dem_nodata : {None, <<NoDataValue>>},
                   jobs : 1 .. MaxJobs]
    /\ dem \in RunDems
    /\ climate_files \in {S \in SUBSET (1 .. Len(FileNames)) : Cardinality(S) <= MaxFiles}
    /\ curvature_file = NoFile
    /\ pc = "slope"
    /\ task = [f \in climate_files |-> Pending]
    /\ calls = {}
    /\ log = FreshLog
    /\ run = 1

\* some monthly task has been handed to a worker
Started == \E f \in climate_files : task[f].st # "pending"
Late == IF Started THEN 1 ELSE 0

\* -------------------------------------------------------- terrain derivatives

\* utils.py:76-106 called at main_micromet.py:84.  The two os.system statuses
\* are only printed; the function returns the paths whatever they are.
ComputeSlopeAspect ==
    /\ pc = "slope"
    /\ \E slope_status \in {0, 256}, aspect_status \in {0, 256} :
         log' = [log EXCEPT !.slope_calls = @ + 1, !.late_writes = @ + Late,
                            !.gdal_failed = ~(slope_status = 0 /\ aspect_status = 0)]
    /\ pc' = StageAfter("slope")
    /\ UNCHANGED <<config, dem, climate_files, curvature_file, task, calls, run>>

\* utils.py:110-185 with the arguments the caller gives it
CurvatureCall(nodata_arg, next_pc) ==
    IF CacheHit(curvature_file)
    THEN /\ log' = [log EXCEPT !.curv_calls = @ + 1, !.curv_nodata = <<nodata_arg>>]
         /\ pc' = next_pc
         /\ UNCHANGED curvature_file
    ELSE IF ~Readable(dem)
    THEN /\ log' = [log EXCEPT !.curv_calls = @ + 1, !.curv_nodata = <<nodata_arg>>]
         /\ pc' = "raised"
         /\ UNCHANGED curvature_file
    ELSE LET r == CurvatureRaster(dem, DefaultL, nodata_arg)
         IN  IF r.ok
             THEN /\ curvature_file' = [exists |-> TRUE, data |-> r.raster]
                  /\ log' = [log EXCEPT !.curv_calls = @ + 1, !.dem_reads = @ + 1,
                                        !.curv_writes = @ + 1,
                                        !.late_writes = @ + Late,
                                        !.curv_nodata = <<nodata_arg>>]
                  /\ pc' = next_pc
             ELSE /\ log' = [log EXCEPT !.curv_calls = @ + 1, !.dem_reads = @ + 1,
                                        !.curv_nodata = <<nodata_arg>>]
                  /\ pc' = "raised"
                  /\ UNCHANGED curvature_file

\* main_micromet.py:86
ComputeCurvature ==
    /\ pc = "curvature"
    /\ CurvatureCall(CurvatureNodataArg(config), StageAfter("curvature"))
    /\ UNCHANGED <<config, dem, climate_files, task, calls, run>>


\* ------------------------------------------------------------------ fan-out

Running == {f \in climate_files : task[f].st = "running"}
Failed == {f \in climate_files : task[f].st = "failed"}

\* run_month from block i up to the next operator call, the raise of
\* parse_yes_no_flag, or the return
Advance(i) ==
    LET j == NextStop(config.flags, i)
    IN  IF j = PastLastBlock THEN [st |-> "done", pos |-> j, err |-> "none"]
        ELSE IF BlockFlag(config.flags, j) = "ValueError"
        THEN [st |-> "failed", pos |-> j, err |-> "ValueError"]
        ELSE [st |-> "running", pos |-> j, err |-> "none"]

\* main_micromet.py:92-94: joblib hands the files to its workers in list order,
\* at most n_jobs at a time; with one job it runs them in the caller, so the
\* first exception ends the loop.  The task starts with lines 22-23.
StartTask(f) ==
    /\ pc = "fanout"
    /\ task[f].st = "pending"
    /\ \A g \in climate_files : g < f => task[g].st # "pending"
    /\ Cardinality(Running) < config.jobs
    /\ config.jobs = 1 => Failed = {}
    /\ task' = [task EXCEPT ![f] =
                  IF NameParses(f) THEN Advance(1)
                  ELSE [st |-> "failed", pos |-> 0, err |-> "IndexError"]]
    /\ UNCHANGED <<config, dem, climate_files, curvature_file, pc, calls, log, run>>

\* main_micromet.py:26-48: the operator call of the block the task stands at.
\* The operator either writes its output and returns, or raises.
Downscale(f) ==
    /\ pc = "fanout"
    /\ task[f].st = "running"
    /\ \E ok \in BOOLEAN :
         /\ calls' = calls \cup
                {[file |-> f, op |-> OperatorName(task[f].pos),
                  folder |-> OutputFolder(task[f].pos),
                  dem_nodata |-> OperatorNodataArg(config), ok |-> ok]}
         /\ task' = [task EXCEPT ![f] =
                       IF ok THEN Advance(task[f].pos + 1)
                       ELSE [st |-> "failed", pos |-> task[f].pos, err |-> "OperatorError"]]
    /\ UNCHANGED <<config, dem, climate_files, curvature_file, pc, log, run>>

\* Parallel re-raises a task's exception in the caller: nothing more is
\* dispatched and the workers still running are terminated
Abort ==
    /\ pc = "fanout"
    /\ Failed # {}
    /\ pc' = "raised"
    /\ task' = [f \in climate_files |->
                  IF task[f].st = "running" THEN [task[f] EXCEPT !.st = "killed"]
                  ELSE task[f]]
    /\ UNCHANGED <<config, dem, climate_files, curvature_file, calls, log, run>>

\* Parallel returns once every task has returned
Finish ==
    /\ pc = "fanout"
    /\ \A f \in climate_files : task[f].st = "done"
    /\ pc' = StageAfter("fanout")
    /\ UNCHANGED <<config, dem, climate_files, curvature_file, task, calls, log, run>>

\* the program is started again on the same working directory and inputs
Rerun ==
    /\ pc \in {"done", "raised"}
    /\ run < MaxRuns
    /\ run' = run + 1
    /\ pc' = "slope"
    /\ task' = [f \in climate_files |-> Pending]
    /\ calls' = {}
    /\ log' = FreshLog
    /\ UNCHANGED <<config, dem, climate_files, curvature_file>>

Next ==
    \/ ComputeSlopeAspect
    \/ ComputeCurvature
    \/ \E f \in climate_files : StartTask(f)
    \/ \E f \in climate_files : Downscale(f)
    \/ Abort
    \/ Finish
    \/ Rerun

Spec == Init /\ [][Next]_vars


\* ------------------------------------------------- the flag dispatch alone
\* every variables_to_downscale over the five keys, on well-named monthly files
InitFlags ==
    /\ config \in [flags : [FlagKeys -> FlagValues],
                   dem_nodata : {None, <<NoDataValue>>},
                   jobs : {1}]
    /\ dem = ExampleDem
    /\ climate_files \in {{1}, {1, 2}}
    /\ curvature_file = NoFile
    /\ pc = "slope"
    /\ task = [f \in climate_files |-> Pending]
    /\ calls = {}
    /\ log = FreshLog
    /\ run = 1

SpecFlags == InitFlags /\ [][Next]_vars

\* ------------------------------------ compute_topographic_curvature alone
InitCurv ==
    /\ config \in [flags : {[k \in FlagKeys |-> "n"]},
                   dem_nodata : {None, <<NoDataValue>>},
                   jobs : {1}]
    /\ dem \in CurvDems(MaxN, MaxNodataCells)
    /\ climate_files = {}
    /\ curvature_file = NoFile
    /\ pc = "curvature"
    /\ task = [f \in climate_files |-> Pending]
    /\ calls = {}
    /\ log = FreshLog
    /\ run = 1

\* compute_topographic_curvature(dem_path, working_directory, dem_nodata=...)
\* called with the configured nodata value
CallCurvature ==
    /\ pc = "curvature"
    /\ CurvatureCall(config.dem_nodata, "done")
    /\ UNCHANGED <<config, dem, climate_files, task, calls, run>>

NextCurv == CallCurvature

SpecCurv == InitCurv /\ [][NextCurv]_vars


\* ================================================================== claims

Unstarted == {f \in climate_files : task[f].st = "pending"}
Killed == {f \in climate_files : task[f].st = "killed"}
RunOver == pc \in {"done", "raised"}
InvalidFlagKeys == {k \in FlagKeys : config.flags[k] \notin {"y", "n", Absent}}

\* C1: a failure inside one monthly task does not abort its siblings: once the
\* fan-out has begun (with valid flags, after terrain steps that succeeded)
\* and the run is over, every task has run to its end (returned or raised);
\* none was left undispatched or was terminated.
C1_SiblingsFinish ==
    (RunOver /\ Started /\ ~log.gdal_failed /\ InvalidFlagKeys = {}) =>
        (Unstarted = {} /\ Killed = {})

\* C2: with an invalid enable/disable flag in the configuration no terrain
\* derivative is computed and no downscaling operator is invoked.
C2_InvalidFlagNoPartialRun ==
    InvalidFlagKeys # {} =>
        (log.slope_calls = 0 /\ log.curv_calls = 0 /\ calls = {} /\ ~Started)

\* C3: when the slope or the aspect command returns a non-zero status, no
\* monthly task is ever started in that run.
C3_TerrainErrorStopsRun == log.gdal_failed => ~Started

\* the stencil of the DEM's centre cell lies inside the DEM
Roomy ==
    /\ Readable(dem)
    /\ dem.ny > 2 * SampleOffset(dem, DefaultL)
    /\ dem.nx > 2 * SampleOffset(dem, DefaultL)

\* C4: called with the DEM's nodata value, the written curvature raster is NaN
\* at exactly the cells whose DEM value is the nodata value (checked on DEMs
\* wider than twice the sample offset).
C4_NanExactlyAtNodata ==
    (pc = "done" /\ Roomy /\ log.curv_nodata = << <<NoDataValue>> >>) =>
        \A p \in Grid(dem.ny, dem.nx) :
            (curvature_file.data[p] = NaN) <=> (dem.z[p] = NoDataValue)

FlatDem ==
    /\ Readable(dem)
    /\ \A p, q \in Grid(dem.ny, dem.nx) : dem.z[p] = dem.z[q]
    /\ \A p \in Grid(dem.ny, dem.nx) : dem.z[p] # NoDataValue

\* C5: for a DEM of one constant elevation the call writes a raster that is
\* zero at every cell (checked on DEMs wider than twice the sample offset).
C5_FlatDemZeroCurvature ==
    (pc # "curvature" /\ FlatDem /\ Roomy) =>
        /\ curvature_file.exists
        /\ \A p \in Grid(dem.ny, dem.nx) : curvature_file.data[p] = 0

\* the operator and the folder the specification pairs with each flag
ExpectedCall ==
    [t_air |-> [op |-> "downscale_Temperature", folder |-> "Temperature"],
     sw_radiation |-> [op |-> "downscale_SW", folder |-> "SW"],
     relative_humidity |-> [op |-> "downscale_RH", folder |-> "RH"],
     precipitation |-> [op |-> "downscale_Precipitation", folder |-> "P"],
     wind |-> [op |-> "downscale_Wind", folder |-> "Wind"]]

ValidFlags == \A k \in DOMAIN ExpectedCall : config.flags[k] \in {"y", "n", Absent}
EnabledCalls == {ExpectedCall[k] : k \in {j \in DOMAIN ExpectedCall : config.flags[j] = "y"}}
CallsOf(f) == {[op |-> c.op, folder |-> c.folder] : c \in {d \in calls : d.file = f}}

\* C6: with every flag "y", "n" or missing, a task invokes only operators whose
\* flag is "y", each with its own folder; a task that returned has invoked
\* exactly those; and with no flag enabled the run reaches its end after both
\* terrain steps with no operator invoked.
C6_FlagDispatch ==
    ValidFlags =>
        /\ \A f \in climate_files : CallsOf(f) \subseteq EnabledCalls
        /\ \A f \in climate_files : task[f].st = "done" => CallsOf(f) = EnabledCalls
        /\ (EnabledCalls = {} /\ pc \notin {"slope", "curvature"}) =>
              /\ pc # "raised"
              /\ calls = {}
              /\ log.slope_calls = 1
              /\ log.curv_calls = 1

C6_Witness ==
    /\ ValidFlags
    /\ pc = "done"
    /\ Cardinality(climate_files) = 2
    /\ \A f \in climate_files : Cardinality(CallsOf(f)) = 5

\* the year and month fields of a file name, as the file system holds them
NameFields(f) == <<FileNames[f][2], FileNames[f][3]>>
DistinctMonths ==
    \A f, g \in climate_files :
        (f # g /\ Len(FileNames[f]) >= 3 /\ Len(FileNames[g]) >= 3) =>
            NameFields(f) # NameFields(g)

NoSharedOutput ==
    \A c, d \in calls :
        c.file # d.file => OutputPath(c.folder, c.file) # OutputPath(d.folder, d.file)

C8_TerrainBeforeFanout ==
    /\ log.late_writes = 0
    /\ Started =>
          /\ log.slope_calls = 1
          /\ log.curv_calls = 1
          /\ curvature_file.exists

C8_Witness ==
    /\ Started
    /\ calls # {}
    /\ run = 2
    /\ log.curv_writes = 0

\* C9: a call of compute_topographic_curvature that finds the curvature file
\* reads no DEM, writes nothing, leaves the file as it is and returns.
C9_CachedCallIsNoOp ==
    [][(pc = "curvature" /\ curvature_file.exists /\ pc' # pc) =>
          /\ curvature_file' = curvature_file
          /\ log'.dem_reads = log.dem_reads
          /\ log'.curv_writes = log.curv_writes
          /\ log'.curv_calls = log.curv_calls + 1
          /\ pc' = "fanout"]_vars

C9_Witness ==
    /\ run = 2
    /\ pc = "fanout"
    /\ log.curv_calls = 1
    /\ log.dem_reads = 0
    /\ curvature_file.exists

\* C10: a configured dem_nodata reaches the compute_topographic_curvature call
\* that computes the raster, as it reaches every operator call.
C10_NodataReachesCurvature ==
    /\ \A c \in calls : c.dem_nodata = config.dem_nodata
    /\ (config.dem_nodata # None /\ log.curv_writes = 1 /\ ~log.gdal_failed) =>
          log.curv_nodata = <<config.dem_nodata>>

====
